---- MODULE Spec2Model ----
(***************************************************************************)
(* A model of peppi-jlrs (src/src/lib.rs): the read_slippi entry point     *)
(* that decodes a Slippi replay, writes its frames to an Arrow IPC file in *)
(* the temp directory and returns a Game handle, the five accessors of     *)
(* Game, and the helper port_occupancy.                                    *)
(***************************************************************************)
EXTENDS Naturals, Sequences, FiniteSets, TLC

(***************************************************************************)
(* Bounds of the model.                                                    *)
(***************************************************************************)
\* number of read_slippi invocations the host makes (concurrently or not)
NumCalls == 2
\* longest player list of a Start record explored for port_occupancy
MaxPlayers == 3
\* number of accessor invocations followed on one handle
MaxReads == 6

(***************************************************************************)
(* Option and Result values of the Rust code.                              *)
(***************************************************************************)
None == <<>>
Some(x) == <<x>>
Ok(x) == <<"Ok", x>>
Err == <<"Err">>

\* Option::unwrap_or on an Option<&str> (after as_deref)
unwrap_or(o, d) == IF o = None THEN d ELSE o[1]
\* Result::ok
ok(r) == IF r[1] = "Ok" THEN Some(r[2]) ELSE None
\* Result::unwrap_or_default for a Result<String, _>
unwrap_or_default(r) == IF r[1] = "Ok" THEN r[2] ELSE ""
\* and_then with the encoding error replaced by the empty text
\* (unwrap_or_default in place of ok)
and_then_default(o, r) == IF o = None THEN None ELSE Some(unwrap_or_default(r))

\* Option::and_then(|m| to_string(m).ok()) with the closure's result given
and_then_ok(o, r) == IF o = None THEN None ELSE ok(r)

(***************************************************************************)
(* The decoded game (peppi's SlippiGame) and what is on the input disk.    *)
(***************************************************************************)
ICE_CLIMBERS == 14
Characters == {ICE_CLIMBERS, 2, 20}
Ports == {0, 1}

Player(port, character) == [port |-> port, character |-> character]

\* a Start record; version stands for start.slippi.version
StartRec(version, players, serializable) ==
    [version |-> version, players |-> players, serializable |-> serializable]

\* an End or Metadata record: a body and whether serde can serialize it
Rec(body, serializable) == [body |-> body, serializable |-> serializable]

\* the files on the input disk; no other path exists
OnDisk == {"corrupt.slp", "a.slp", "b.slp", "c.slp"}

\* what the decoder finds in the file at path p
Disk(p) ==
        CASE p = "corrupt.slp" -> [valid |-> FALSE]
          [] p = "a.slp" ->
               [valid |-> TRUE,
                start |-> StartRec(3, <<Player(0, ICE_CLIMBERS), Player(1, 2)>>, TRUE),
                end |-> Some(Rec("end:a", TRUE)),
                metadata |-> Some(Rec("meta:a", TRUE)),
                hash |-> Some("h1"),
                frames |-> 2]
          [] p = "b.slp" ->
               [valid |-> TRUE,
                start |-> StartRec(3, <<Player(1, 20)>>, TRUE),
                end |-> None,
                metadata |-> Some(Rec("meta:b", FALSE)),
                hash |-> None,
                frames |-> 1]
          [] p = "c.slp" ->
               [valid |-> TRUE,
                start |-> StartRec(2, <<Player(0, 2), Player(1, ICE_CLIMBERS)>>, TRUE),
                end |-> Some(Rec("end:c", FALSE)),
                metadata |-> Some(Rec("meta:c", TRUE)),
                hash |-> Some(""),
                frames |-> 3]

InputPaths == OnDisk \cup {"missing.slp"}
\* the i8 flag of read_slippi
Flags == {0, 1}

\* fs::File::open
FileOpen(path) == IF path \in OnDisk THEN Ok(path) ELSE Err

\* SlippiRead with the decode error replaced by a default game
\* (unwrap_or_default in place of expect)
SlippiReadOrDefault(path, skip_frames) ==
    LET raw == Disk(path) IN
    IF ~raw.valid
    THEN Ok([start |-> StartRec(0, <<>>, TRUE), end |-> None, metadata |-> None,
             hash |-> None, frames |-> 0])
    ELSE Ok([start |-> raw.start, end |-> raw.end, metadata |-> raw.metadata,
             hash |-> raw.hash,
             frames |-> IF skip_frames THEN 0 ELSE raw.frames])

\* peppi::io::slippi::read with Opts{skip_frames}
SlippiRead(path, skip_frames) ==
    LET raw == Disk(path) IN
    IF ~raw.valid THEN Err
    ELSE Ok([start |-> raw.start, end |-> raw.end, metadata |-> raw.metadata,
             hash |-> raw.hash,
             frames |-> IF skip_frames THEN 0 ELSE raw.frames])

(***************************************************************************)
(* serde_json::to_string.  The text is built from the record, so that two  *)
(* records have the same text only when they are the same record.          *)
(***************************************************************************)
RECURSIVE PlayersJson(_)
PlayersJson(players) ==
    IF players = <<>> THEN ""
    ELSE "{port:" \o ToString(Head(players).port)
         \o ",character:" \o ToString(Head(players).character) \o "}"
         \o PlayersJson(Tail(players))

to_string_start(start) ==
    IF start.serializable
    THEN Ok("{version:" \o ToString(start.version)
            \o ",players:[" \o PlayersJson(start.players) \o "]}")
    ELSE Err

to_string(m) == IF m.serializable THEN Ok("{" \o m.body \o "}") ELSE Err

(***************************************************************************)
(* port_occupancy (lines 161-170) and the Arrow structures built from it.  *)
(***************************************************************************)
\* PortOccupancy with the follower test inverted
PortOccupancyInverted(p) == [port |-> p.port, follower |-> p.character # ICE_CLIMBERS]

PortOccupancy(p) == [port |-> p.port, follower |-> p.character = ICE_CLIMBERS]

port_occupancy(start) ==
    [i \in 1..Len(start.players) |-> PortOccupancy(start.players[i])]

\* the struct type of the frames: one field per port, with a follower field
\* where the occupancy says so; written as its signature
RECURSIVE PortFields(_)
PortFields(occupancy) ==
    IF occupancy = <<>> THEN ""
    ELSE "port" \o ToString(Head(occupancy).port)
         \o (IF Head(occupancy).follower THEN "{leader,follower}" ELSE "{leader}")
         \o PortFields(Tail(occupancy))

\* frames.into_struct_array(version, &port_occupancy(start)): the data type
\* of the struct array follows the occupancy, the rows are the frames
into_struct_array(frames, version, occupancy) ==
    [data_type |-> "Struct<v" \o ToString(version) \o ":" \o PortFields(occupancy) \o ">",
     rows |-> frames]

\* Schema::from(vec![Field{name: "frame", data_type, ..}])
SchemaOf(array) == [name |-> "frame", data_type |-> array.data_type]

(***************************************************************************)
(* Paths.  A PathBuf is an OS string: its text, and whether it is UTF-8.   *)
(***************************************************************************)
TempDirs == {[text |-> "/tmp", utf8 |-> TRUE], [text |-> "/tmp-\\xff", utf8 |-> FALSE]}

\* ArrowPath with the hash left out of the file name
ArrowPathFixed(dir, hash) ==
    [text |-> dir.text \o "/" \o "slippi_frames_" \o "unknown" \o ".arrow",
     utf8 |-> dir.utf8]

\* temp_dir().join(format!("slippi_frames_{}.arrow", hash.unwrap_or("unknown")))
ArrowPath(dir, hash) ==
    [text |-> dir.text \o "/" \o "slippi_frames_" \o unwrap_or(hash, "unknown") \o ".arrow",
     utf8 |-> dir.utf8]

\* Path::to_str
to_str(path) == IF path.utf8 THEN Some(path.text) ELSE None

(***************************************************************************)
(* The output file system.  A file is a sequence of blocks, a block being   *)
(* what one call of the writer (try_new, write, finish) puts into the      *)
(* file; every open descriptor writes at its own offset, and a file        *)
(* created again under the same name is the same file, truncated.          *)
(***************************************************************************)
Hole == [blk |-> "hole"]
SchemaBlock(schema) == [blk |-> "schema", schema |-> schema]
BatchBlock(chunk) == [blk |-> "batch", data_type |-> chunk.data_type, rows |-> chunk.rows]
FooterBlock(schema, chunk) == [blk |-> "footer", schema |-> schema, rows |-> chunk.rows]

\* fs::File::create: creates the file, or truncates the one that is there
FileCreate(fs, name) == (name :> <<>>) @@ fs

\* a file's data extended with holes up to n blocks
RECURSIVE Pad(_, _)
Pad(data, n) == IF Len(data) >= n THEN data ELSE Pad(Append(data, Hole), n)

\* WriteAt on a descriptor opened for appending: the offset is ignored
WriteAppend(fs, name, off, block) == (name :> Append(fs[name], block)) @@ fs

\* write(2) of one block at offset off of the file called name
WriteAt(fs, name, off, block) ==
    LET old == Pad(fs[name], off)
        new == [i \in 1..(IF Len(old) > off THEN Len(old) ELSE off + 1) |->
                   IF i = off + 1 THEN block ELSE old[i]]
    IN  (name :> new) @@ fs

\* what the container holds once a writer has written all of it
Image(schema, chunk) ==
    <<SchemaBlock(schema), BatchBlock(chunk), FooterBlock(schema, chunk)>>

\* a reader of the container format can open the file: header, one batch
\* and footer, the batch of the schema's type, the footer of the header's
\* schema and the batch's row count
Readable(fs, name) ==
    /\ name \in DOMAIN fs
    /\ Len(fs[name]) = 3
    /\ fs[name][1].blk = "schema"
    /\ fs[name][2].blk = "batch"
    /\ fs[name][3].blk = "footer"
    /\ fs[name][2].data_type = fs[name][1].schema.data_type
    /\ fs[name][3].schema = fs[name][1].schema
    /\ fs[name][3].rows = fs[name][2].rows

(***************************************************************************)
(* The Game handle (lines 39-45) and its accessors (lines 47-80).  An      *)
(* accessor yields the string it returns and the handle it leaves behind.  *)
(***************************************************************************)
Game(start, end, metadata, hash, frames_arrow_path) ==
    [start |-> start, end |-> end, metadata |-> metadata, hash |-> hash,
     frames_arrow_path |-> frames_arrow_path]

\* get_end with another sentinel than the empty string
get_end_null(self) == [ret |-> unwrap_or(self.end, "null"), self |-> self]

\* get_metadata that moves the text out of the handle (Option::take)
get_metadata_take(self) ==
    [ret |-> unwrap_or(self.metadata, ""), self |-> [self EXCEPT !.metadata = None]]

get_start(self) == [ret |-> self.start, self |-> self]
get_end(self) == [ret |-> unwrap_or(self.end, ""), self |-> self]
get_metadata(self) == [ret |-> unwrap_or(self.metadata, ""), self |-> self]
get_hash(self) == [ret |-> unwrap_or(self.hash, ""), self |-> self]
get_frames_arrow_path(self) == [ret |-> self.frames_arrow_path, self |-> self]

Accessors == {"get_start", "get_end", "get_metadata", "get_hash", "get_frames_arrow_path"}

\* the accessor entry points exported by julia_module! (lines 183-193)
Dispatch(a, self) ==
    CASE a = "get_start" -> get_start(self)
      [] a = "get_end" -> get_end(self)
      [] a = "get_metadata" -> get_metadata(self)
      [] a = "get_hash" -> get_hash(self)
      [] a = "get_frames_arrow_path" -> get_frames_arrow_path(self)

(***************************************************************************)
(* read_slippi (lines 82-159), one invocation per element of Calls.        *)
(***************************************************************************)
Calls == 1..NumCalls

\* Then with the finish statement left out
ThenNoFinish(op) ==
    CASE op = "open" -> "read"
      [] op = "read" -> "create"
      [] op = "create" -> "try_new"
      [] op = "try_new" -> "write"
      [] op = "write" -> "to_str"
      [] op = "finish" -> "to_str"
      [] op = "to_str" -> "returned"

\* the fallible statements of read_slippi, in program order
Then(op) ==
    CASE op = "open" -> "read"
      [] op = "read" -> "create"
      [] op = "create" -> "try_new"
      [] op = "try_new" -> "write"
      [] op = "write" -> "finish"
      [] op = "finish" -> "to_str"
      [] op = "to_str" -> "returned"

\* expect that runs the failed statement again
expect_retry(okay, op) == IF okay THEN Then(op) ELSE op

\* .expect(..) on the result of statement op: go on, or panic
expect(okay, op) == IF okay THEN Then(op) ELSE "panicked"

\* lines 98-127: what is computed between the decode and the file creation
\* and used after it (of slippi_game, the hash)
Locals(slippi_game, dir) ==
    LET frames_struct_array ==
            into_struct_array(slippi_game.frames, slippi_game.start.version,
                              port_occupancy(slippi_game.start))
    IN  [hash |-> slippi_game.hash,
         start_json |-> unwrap_or_default(to_string_start(slippi_game.start)),
         end_json |-> and_then_ok(slippi_game.end,
                         IF slippi_game.end = None THEN Err
                         ELSE to_string(slippi_game.end[1])),
         metadata_json |-> and_then_ok(slippi_game.metadata,
                         IF slippi_game.metadata = None THEN Err
                         ELSE to_string(slippi_game.metadata[1])),
         schema |-> SchemaOf(frames_struct_array),
         chunk |-> frames_struct_array,
         arrow_path |-> ArrowPath(dir, slippi_game.hash)]

VARIABLES
    pc,         \* per call: the statement it is about to execute, or how it ended
    args,       \* per call: the (path, skip_frames) it was invoked with
    frame,      \* per call: the locals of read_slippi once the replay is decoded
    log,        \* per call: the fallible statements it has executed, in order
    handle,     \* per call: the Game it has returned to the host
    files,      \* the destination files: name -> sequence of blocks
    tmp,        \* std::env::temp_dir() of the process
    seen,       \* (call, accessor) -> what the accessor returned the first time
    last,       \* the latest accessor invocation and what it returned
    nreads,     \* accessor invocations so far
    players,    \* the player list given to port_occupancy
    occupancy   \* what port_occupancy returned for it

vars == <<pc, args, frame, log, handle, files, tmp, seen, last, nreads, players, occupancy>>
accVars == <<seen, last, nreads>>
occVars == <<players, occupancy>>

Init ==
    /\ pc = [c \in Calls |-> "open"]
    /\ args = [c \in Calls |-> None]
    /\ frame = [c \in Calls |-> None]
    /\ log = [c \in Calls |-> <<>>]
    /\ handle = [c \in Calls |-> None]
    /\ files = <<>>
    /\ tmp \in TempDirs
    /\ seen = <<>>
    /\ last = None
    /\ nreads = 0
    /\ players = None
    /\ occupancy = None

\* the destination file of call c, named by the path it computed
Dest(c) == frame[c][1].arrow_path.text

Did(c, op) == log' = [log EXCEPT ![c] = Append(@, op)]

\* lines 82-86: the host invokes read_slippi(path, skip_frames); the file is opened
Open(c) ==
    /\ pc[c] = "open"
    /\ \E path \in InputPaths, skip_frames \in Flags :
          /\ args' = [args EXCEPT ![c] = Some([path |-> path, skip_frames |-> skip_frames])]
          /\ pc' = [pc EXCEPT ![c] = expect(FileOpen(path) # Err, "open")]
    /\ Did(c, "open")
    /\ UNCHANGED <<frame, handle, files, tmp, accVars, occVars>>

\* lines 88-127: the replay is decoded, the summaries, the struct array, the
\* schema, the chunk and the destination path are computed
Read(c) ==
    /\ pc[c] = "read"
    /\ LET slippi_game == SlippiRead(args[c][1].path, args[c][1].skip_frames # 0) IN
          /\ pc' = [pc EXCEPT ![c] = expect(slippi_game # Err, "read")]
          /\ frame' = [frame EXCEPT ![c] =
                          IF slippi_game = Err THEN None
                          ELSE Some(Locals(slippi_game[2], tmp))]
    /\ Did(c, "read")
    /\ UNCHANGED <<args, handle, files, tmp, accVars, occVars>>

\* lines 129-130: fs::File::create(&arrow_path)
Create(c) ==
    /\ pc[c] = "create"
    /\ \E okay \in BOOLEAN :
          /\ pc' = [pc EXCEPT ![c] = expect(okay, "create")]
          /\ files' = IF okay THEN FileCreate(files, Dest(c)) ELSE files
    /\ Did(c, "create")
    /\ UNCHANGED <<args, frame, handle, tmp, accVars, occVars>>

\* lines 132-137: FileWriter::try_new writes the schema header
TryNew(c) ==
    /\ pc[c] = "try_new"
    /\ \E okay \in BOOLEAN :
          /\ pc' = [pc EXCEPT ![c] = expect(okay, "try_new")]
          /\ files' = IF okay
                      THEN WriteAt(files, Dest(c), 0, SchemaBlock(frame[c][1].schema))
                      ELSE files
    /\ Did(c, "try_new")
    /\ UNCHANGED <<args, frame, handle, tmp, accVars, occVars>>

\* line 139: writer.write(&chunk, None) writes the one record batch
Write(c) ==
    /\ pc[c] = "write"
    /\ \E okay \in BOOLEAN :
          /\ pc' = [pc EXCEPT ![c] = expect(okay, "write")]
          /\ files' = IF okay
                      THEN WriteAt(files, Dest(c), 1,
                                   BatchBlock(frame[c][1].chunk))
                      ELSE files
    /\ Did(c, "write")
    /\ UNCHANGED <<args, frame, handle, tmp, accVars, occVars>>

\* line 140: writer.finish() writes the footer
Finish(c) ==
    /\ pc[c] = "finish"
    /\ \E okay \in BOOLEAN :
          /\ pc' = [pc EXCEPT ![c] = expect(okay, "finish")]
          /\ files' = IF okay
                      THEN WriteAt(files, Dest(c), 2,
                                   FooterBlock(frame[c][1].schema, frame[c][1].chunk))
                      ELSE files
    /\ Did(c, "finish")
    /\ UNCHANGED <<args, frame, handle, tmp, accVars, occVars>>

\* lines 142-158: the path becomes a String, the Game is built and returned
Return(c) ==
    /\ pc[c] = "to_str"
    /\ LET arrow_path_str == to_str(frame[c][1].arrow_path) IN
          /\ pc' = [pc EXCEPT ![c] = expect(arrow_path_str # None, "to_str")]
          /\ handle' = [handle EXCEPT ![c] =
                           IF arrow_path_str = None THEN None
                           ELSE Some(Game(frame[c][1].start_json,
                                          frame[c][1].end_json,
                                          frame[c][1].metadata_json,
                                          frame[c][1].hash,
                                          arrow_path_str[1]))]
    /\ Did(c, "to_str")
    /\ UNCHANGED <<args, frame, files, tmp, accVars, occVars>>

\* lines 47-80, 183-193: the host invokes accessor a on the handle of call c
Access(c, a) ==
    /\ handle[c] # None
    /\ nreads < MaxReads
    /\ LET r == Dispatch(a, handle[c][1]) IN
          /\ handle' = [handle EXCEPT ![c] = Some(r.self)]
          /\ last' = Some([call |-> c, accessor |-> a, ret |-> r.ret])
          /\ seen' = IF <<c, a>> \in DOMAIN seen THEN seen ELSE (<<c, a>> :> r.ret) @@ seen
    /\ nreads' = nreads + 1
    /\ UNCHANGED <<pc, args, frame, log, files, tmp, occVars>>

\* lines 109-112: port_occupancy is applied to a Start record
Resolve ==
    /\ players # None
    /\ occupancy = None
    /\ occupancy' = Some(port_occupancy(StartRec(3, players[1], TRUE)))
    /\ UNCHANGED <<pc, args, frame, log, handle, files, tmp, accVars, players>>

read_slippi(c) ==
    \/ Open(c)
    \/ Read(c)
    \/ Create(c)
    \/ TryNew(c)
    \/ Write(c)
    \/ Finish(c)
    \/ Return(c)

Next == \E c \in Calls : read_slippi(c)

Spec == Init /\ [][Next]_vars

\* one ingestion, and the host's accessor calls on the handle it returned,
\* at most MaxReads of them
AccCalls == {1}
NextAcc ==
    \/ \E c \in AccCalls : read_slippi(c)
    \/ \E c \in AccCalls, a \in Accessors : Access(c, a)

SpecAcc == Init /\ [][NextAcc]_vars

\* port_occupancy on every player list of at most MaxPlayers players
RECURSIVE PlayerLists(_)
PlayerLists(n) ==
    IF n = 0 THEN {<<>>}
    ELSE PlayerLists(n - 1) \cup
         {Append(s, Player(port, character)) :
             s \in {t \in PlayerLists(n - 1) : Len(t) = n - 1},
             port \in Ports, character \in Characters}

InitOcc ==
    /\ pc = [c \in Calls |-> "open"]
    /\ args = [c \in Calls |-> None]
    /\ frame = [c \in Calls |-> None]
    /\ log = [c \in Calls |-> <<>>]
    /\ handle = [c \in Calls |-> None]
    /\ files = <<>>
    /\ tmp \in TempDirs
    /\ seen = <<>>
    /\ last = None
    /\ nreads = 0
    /\ players \in {Some(s) : s \in PlayerLists(MaxPlayers)}
    /\ occupancy = None

NextOcc == Resolve

SpecOcc == InitOcc /\ [][NextOcc]_vars

(***************************************************************************)
(* Properties.                                                             *)
(***************************************************************************)
\* call c has attempted statement op
Attempted(c, op) == \E i \in DOMAIN log[c] : log[c][i] = op
\* call c has attempted no statement twice
NoRetry(c) == \A i \in DOMAIN log[c] : \A j \in 1..(i - 1) : log[c][i] # log[c][j]
LastOf(s) == s[Len(s)]
AllSteps == <<"open", "read", "create", "try_new", "write", "finish", "to_str">>
OutputSteps == {"create", "try_new", "write", "finish"}

\* call c has created (or truncated) its destination file
Created(c) ==
    /\ Attempted(c, "create")
    /\ ~(pc[c] = "panicked" /\ LastOf(log[c]) = "create")

\* the input of call c cannot be opened, or cannot be decoded
Missing(c) == args[c] # None /\ args[c][1].path \notin OnDisk
Corrupt(c) == args[c] # None /\ ~Missing(c) /\ ~Disk(args[c][1].path).valid

\* the game the decoder yields for the input of call c
GameOf(c) == SlippiRead(args[c][1].path, args[c][1].skip_frames # 0)[2]

\* the hash of call c's replay, or "unknown"
HashOrUnknown(c) == LET hash == GameOf(c).hash IN IF hash = None THEN "unknown" ELSE hash[1]

\* what call c writes when nothing disturbs it
ImageOf(c) == Image(frame[c][1].schema, frame[c][1].chunk)

\* C1: once a handle has been returned, the file at its frames path is fully
\* written and finalized, and stays so, whatever other ingestion calls do.
C1_ReturnedFileStaysFinalized ==
    \A c \in Calls :
        handle[c] # None => Readable(files, handle[c][1].frames_arrow_path)

\* C2: within one call the output steps are create, schema header, the one
\* chunk, finalize, in this order; the handle exists only after finalize (and
\* every step before it) has been executed, and a call that is the only one to
\* touch its destination leaves the complete container there.
C2_FinalizeBeforeReturn ==
    \A c \in Calls :
        /\ log[c] = SubSeq(AllSteps, 1, Len(log[c]))
        /\ handle[c] # None => pc[c] = "returned"
        /\ pc[c] = "returned" => /\ log[c] = AllSteps
                                 /\ handle[c] # None
        /\ (pc[c] = "returned" /\ \A d \in Calls \ {c} :
                                     ~(frame[d] # None /\ Created(d) /\ Dest(d) = Dest(c)))
              => files[Dest(c)] = ImageOf(c)

C2_Witness ==
    \E c \in Calls : /\ pc[c] = "returned"
                     /\ files[Dest(c)] = ImageOf(c)
                     /\ handle[c][1].frames_arrow_path = Dest(c)

\* C3: a failure of open, decode, create, writer creation, chunk write,
\* finalize or path conversion ends the call in a panic; no statement is
\* attempted twice; and a panicked call has no handle.
C3_FailureAbortsOnce ==
    \A c \in Calls :
        /\ NoRetry(c)
        /\ pc[c] = "panicked" => handle[c] = None
        /\ (Missing(c) /\ log[c] # <<>>) => pc[c] = "panicked" /\ log[c] = <<"open">>
        /\ (Corrupt(c) /\ Len(log[c]) >= 2) =>
               pc[c] = "panicked" /\ log[c] = <<"open", "read">>
        /\ (~tmp.utf8 /\ Attempted(c, "to_str")) =>
               pc[c] = "panicked" /\ handle[c] = None
        /\ pc[c] \notin {"panicked", "returned"} => ~Attempted(c, pc[c])

C3_Witness ==
    \E c \in Calls : /\ pc[c] = "panicked"
                     /\ LastOf(log[c]) = "finish"
                     /\ Len(files[Dest(c)]) = 2
                     /\ handle[c] = None

\* C4: a call whose input cannot be opened or decoded panics without having
\* created or truncated a destination file; a destination file is created
\* only after open and decode have both succeeded.
C4_InputFailureCreatesNothing ==
    /\ \A c \in Calls :
          /\ (Missing(c) \/ Corrupt(c)) =>
                /\ ~Attempted(c, "create")
                /\ pc[c] \in {"read", "panicked"}
                /\ handle[c] = None
          /\ Missing(c) => pc[c] = "panicked"
          /\ (Corrupt(c) /\ Attempted(c, "read")) => pc[c] = "panicked"
          /\ Attempted(c, "create") =>
                /\ frame[c] # None
                /\ SubSeq(log[c], 1, 3) = <<"open", "read", "create">>
    /\ (\A c \in Calls : ~(frame[c] # None /\ Created(c))) => DOMAIN files = {}

C4_Witness ==
    /\ \E c \in Calls : Missing(c) /\ pc[c] = "panicked"
    /\ \E c \in Calls : Corrupt(c) /\ pc[c] = "panicked"
    /\ DOMAIN files = {}

\* C5: the occupancy list has the length and the order of the player list;
\* entry i carries player i's port, and its follower flag is true exactly
\* when player i's character is ICE_CLIMBERS.
C5_OccupancyFollowsPlayers ==
    occupancy # None =>
        /\ Len(occupancy[1]) = Len(players[1])
        /\ \A i \in 1..Len(players[1]) :
              /\ occupancy[1][i].port = players[1][i].port
              /\ occupancy[1][i].follower = (players[1][i].character = ICE_CLIMBERS)

C5_Witness ==
    /\ occupancy # None
    /\ Len(players[1]) = MaxPlayers
    /\ \E i, j \in 1..Len(players[1]) :
          /\ occupancy[1][i].follower
          /\ ~occupancy[1][j].follower
          /\ occupancy[1][i].port # occupancy[1][j].port

\* the End (Metadata) record of call c is present and cannot be encoded
Fails(record) == record # None /\ ~record[1].serializable
EndFails(c) == Fails(GameOf(c).end)
MetadataFails(c) == Fails(GameOf(c).metadata)

\* the path text that the spec's path convention gives call c
ConventionPath(c) == tmp.text \o "/slippi_frames_" \o HashOrUnknown(c) \o ".arrow"

\* C6: when the encoding of a present End or Metadata record fails, the field
\* is absent in the handle (its accessor returns ""), the call does not
\* panic for it, it performs all its output steps, and the start summary, the
\* other optional summary, the hash and the frames path are what they are
\* for a replay whose encoding succeeds.
C6_EncodingFailureDegrades ==
    \A c \in Calls :
        frame[c] # None =>
            LET g == GameOf(c)
                h == handle[c][1]
            IN  (Fails(g.end) \/ Fails(g.metadata)) =>
                /\ pc[c] = "panicked" => LastOf(log[c]) \in OutputSteps \cup {"to_str"}
                /\ pc[c] = "returned" =>
                      /\ handle[c] # None
                      /\ \A op \in OutputSteps : Attempted(c, op)
                      /\ Fails(g.end) => h.end = None /\ get_end(h).ret = ""
                      /\ Fails(g.metadata) => h.metadata = None /\ get_metadata(h).ret = ""
                      /\ (~Fails(g.end) /\ g.end # None) =>
                            h.end = Some("{" \o g.end[1].body \o "}")
                      /\ (~Fails(g.metadata) /\ g.metadata # None) =>
                            h.metadata = Some("{" \o g.metadata[1].body \o "}")
                      /\ g.end = None => h.end = None
                      /\ g.metadata = None => h.metadata = None
                      /\ h.start = to_string_start(g.start)[2]
                      /\ h.hash = g.hash
                      /\ h.frames_arrow_path = ConventionPath(c)

C6_Witness ==
    /\ \E c \in Calls : /\ pc[c] = "returned"
                        /\ EndFails(c)
                        /\ handle[c][1].end = None
                        /\ handle[c][1].metadata # None
                        /\ Readable(files, handle[c][1].frames_arrow_path)
    /\ \E c \in Calls : /\ pc[c] = "returned"
                        /\ MetadataFails(c)
                        /\ handle[c][1].metadata = None

\* C7: get_start and get_frames_arrow_path return the stored field; get_end,
\* get_metadata and get_hash return the stored text when the field is present
\* and "" when it is absent, always a string; an End or Metadata absent in
\* the decoded game reads as "", as does a present empty text.
C7_AccessorsReturnStoredOrEmpty ==
    last # None =>
        LET h == handle[last[1].call][1]
            g == GameOf(last[1].call)
            a == last[1].accessor
            r == last[1].ret
        IN  /\ r \in STRING
            /\ a = "get_start" => r = h.start
            /\ a = "get_frames_arrow_path" => r = h.frames_arrow_path
            /\ a = "get_end" => (IF h.end = None THEN r = "" ELSE r = h.end[1])
            /\ a = "get_metadata" =>
                  (IF h.metadata = None THEN r = "" ELSE r = h.metadata[1])
            /\ a = "get_hash" => (IF h.hash = None THEN r = "" ELSE r = h.hash[1])
            /\ (a = "get_end" /\ g.end = None) => r = ""
            /\ (a = "get_metadata" /\ g.metadata = None) => r = ""
            /\ (a = "get_hash" /\ h.hash \in {None, Some("")}) => r = ""
            /\ get_end([h EXCEPT !.end = Some("")]).ret = get_end([h EXCEPT !.end = None]).ret
            /\ get_metadata([h EXCEPT !.metadata = Some("")]).ret
                  = get_metadata([h EXCEPT !.metadata = None]).ret
            /\ get_hash([h EXCEPT !.hash = Some("")]).ret = get_hash([h EXCEPT !.hash = None]).ret

C7_Witness ==
    /\ last # None
    /\ last[1].accessor = "get_end"
    /\ GameOf(last[1].call).end = None
    /\ last[1].ret = ""
    /\ <<last[1].call, "get_hash">> \in DOMAIN seen
    /\ <<last[1].call, "get_metadata">> \in DOMAIN seen
    /\ <<last[1].call, "get_start">> \in DOMAIN seen

\* C8: accessor calls, in any order and any number, leave the five fields of
\* the handle as they are, and an accessor returns what it returned the
\* first time.
C8_AccessorsArePureReads ==
    /\ [](last # None => seen[<<last[1].call, last[1].accessor>>] = last[1].ret)
    /\ [][\A c \in Calls : handle[c] # None => handle'[c] = handle[c]]_vars

C8_Witness ==
    /\ nreads = MaxReads
    /\ last # None
    /\ \E a \in Accessors : <<last[1].call, a>> \notin DOMAIN seen
    /\ seen[<<last[1].call, last[1].accessor>>] = last[1].ret

\* call d has touched the file called name
Touched(d, name) == frame[d] # None /\ Created(d) /\ Dest(d) = name

\* C9: two ingestions of the same input (same path, same flag) return
\* handles equal in start, end, metadata, hash and destination path, and
\* when the ingestions that touched that destination are ingestions of this
\* input that have returned, the file there is the complete container of
\* this input.
C9_SameInputSameResult ==
    \A c1, c2 \in Calls :
        (c1 # c2 /\ pc[c1] = "returned" /\ pc[c2] = "returned" /\ args[c1] = args[c2]) =>
            /\ handle[c1][1].start = handle[c2][1].start
            /\ handle[c1][1].end = handle[c2][1].end
            /\ handle[c1][1].metadata = handle[c2][1].metadata
            /\ handle[c1][1].hash = handle[c2][1].hash
            /\ handle[c1][1].frames_arrow_path = handle[c2][1].frames_arrow_path
            /\ (\A d \in Calls : Touched(d, Dest(c1)) =>
                                     (pc[d] = "returned" /\ args[d] = args[c1]))
                  => /\ Readable(files, handle[c1][1].frames_arrow_path)
                     /\ files[handle[c1][1].frames_arrow_path] = ImageOf(c1)

C9_Witness ==
    \E c1, c2 \in Calls :
        /\ c1 # c2
        /\ pc[c1] = "returned"
        /\ pc[c2] = "returned"
        /\ args[c1] = args[c2]
        /\ files[handle[c2][1].frames_arrow_path] = ImageOf(c1)

\* C10: the destination of an ingestion is <temp dir>/slippi_frames_<h>.arrow
\* with h the replay's hash, or "unknown" without one; that is the file the
\* call creates and the frames path of its handle, whose hash field is the
\* replay's hash; two ingestions have the same destination exactly when their
\* h are equal.
C10_DestinationFromHash ==
    /\ \A c \in Calls :
          frame[c] # None =>
              LET path == ConventionPath(c) IN
              /\ Dest(c) = path
              /\ Created(c) => path \in DOMAIN files
              /\ handle[c] # None =>
                    /\ handle[c][1].frames_arrow_path = path
                    /\ handle[c][1].hash = GameOf(c).hash
    /\ \A c1, c2 \in Calls :
          (c1 < c2 /\ frame[c1] # None /\ frame[c2] # None) =>
              ((Dest(c1) = Dest(c2)) <=> (HashOrUnknown(c1) = HashOrUnknown(c2)))
    /\ \A name \in DOMAIN files :
          \E c \in Calls : frame[c] # None /\ Created(c) /\ name = Dest(c)

C10_Witness ==
    \E c1, c2 \in Calls :
        /\ handle[c1] # None
        /\ handle[c2] # None
        /\ handle[c1][1].hash = None
        /\ handle[c1][1].frames_arrow_path = "/tmp/slippi_frames_unknown.arrow"
        /\ handle[c2][1].hash = Some("h1")
        /\ handle[c2][1].frames_arrow_path = "/tmp/slippi_frames_h1.arrow"
        /\ DOMAIN files = {"/tmp/slippi_frames_unknown.arrow", "/tmp/slippi_frames_h1.arrow"}

====
